---- MODULE Spec2Model ----
(***************************************************************************)
(* Model of the petition query tool: the Streamlit session of app.py, the  *)
(* query pipeline of query_processor.py (model call, filter engine,        *)
(* narrative analysis, keyword fallback) and the ingestion of              *)
(* data_service.py.                                                        *)
(*                                                                         *)
(* Text is a sequence of one-character strings, so that lower-casing,      *)
(* substring tests, regular-expression escaping and matching are computed  *)
(* character by character as Python and pandas compute them.               *)
(***************************************************************************)
EXTENDS Integers, Sequences, FiniteSets, TLC

VARIABLES petition_data, query_input, ai_reply, analysis_reply, query_results,
          calls, filters, filtered, refiltered

vars == <<petition_data, query_input, ai_reply, analysis_reply, query_results,
          calls, filters, filtered, refiltered>>

(***************************************************************************)
(* Bounds                                                                  *)
(***************************************************************************)
\* largest number of rows of a dataframe handed to the pipeline's functions
MaxLen == 3
\* largest number of rows of the remote sheet during a session
MaxSheet == 2
\* number of rows of the long sheet, more than the fallback's top results
LongSheet == 21

(***************************************************************************)
(* Text primitives (Python str)                                            *)
(***************************************************************************)
\* the characters in use, in code-point order
Ascii ==
  <<" ","'",".","0","1","5",
    "A","B","C","D","E","F","G","H","I","J","K","L","M",
    "N","O","P","Q","R","S","T","U","V","W","X","Y","Z",
    "\\",
    "a","b","c","d","e","f","g","h","i","j","k","l","m",
    "n","o","p","q","r","s","t","u","v","w","x","y","z",
    "|">>

\* position of each character in code-point order
ord_table ==
  [c \in {Ascii[i] : i \in 1..Len(Ascii)} |-> CHOOSE i \in 1..Len(Ascii) : Ascii[i] = c]
ord(c) == ord_table[c]

\* str.lower on each character: "A".."Z" are at 7..32, "a".."z" at 34..59
lower_table ==
  [c \in DOMAIN ord_table |-> IF ord(c) \in 7..32 THEN Ascii[ord(c) + 27] ELSE c]
lower_char(c) == lower_table[c]

\* str.lower
str_lower(s) == [i \in 1..Len(s) |-> lower_char(s[i])]

\* Python's `sub in s` on str
str_in(sub, s) ==
  \E i \in 0..(Len(s) - Len(sub)) : SubSeq(s, i + 1, i + Len(sub)) = sub

\* Python's `a < b` on str: lexicographic by code point
str_lt(a, b) ==
  \E i \in 1..Len(b) :
     /\ \A j \in 1..(i - 1) : j <= Len(a) /\ a[j] = b[j]
     /\ \/ i = Len(a) + 1
        \/ i <= Len(a) /\ ord(a[i]) < ord(b[i])

(***************************************************************************)
(* Regular expressions (re.escape, and the search behind str.contains)     *)
(***************************************************************************)
\* the characters of the alphabet that re.escape prefixes with a backslash
re_special == {" ", ".", "\\", "|"}

RECURSIVE re_escape(_)
re_escape_raw(s) == s
re_escape(s) ==
  IF s = <<>> THEN <<>>
  ELSE IF Head(s) \in re_special
       THEN <<"\\", Head(s)>> \o re_escape(Tail(s))
       ELSE <<Head(s)>> \o re_escape(Tail(s))

\* '|'.join(parts)
RECURSIVE join_bar(_)
join_bar(parts) ==
  IF parts = <<>> THEN <<>>
  ELSE IF Len(parts) = 1 THEN parts[1]
  ELSE parts[1] \o <<"|">> \o join_bar(Tail(parts))

\* pattern text -> tokens: an escaped character is a literal, a bare "." is
\* the wildcard, a bare "|" separates alternatives
RECURSIVE re_tokens(_)
re_tokens(p) ==
  IF p = <<>> THEN <<>>
  ELSE IF Head(p) = "\\" /\ Len(p) >= 2
       THEN <<[lit |-> TRUE, c |-> p[2]]>> \o re_tokens(SubSeq(p, 3, Len(p)))
  ELSE IF Head(p) \in {".", "|"}
       THEN <<[lit |-> FALSE, c |-> Head(p)]>> \o re_tokens(Tail(p))
  ELSE <<[lit |-> TRUE, c |-> Head(p)]>> \o re_tokens(Tail(p))

\* tokens -> the alternatives between the bare "|"
RECURSIVE re_alternatives(_)
re_alternatives(toks) ==
  LET bars == {i \in 1..Len(toks) : ~toks[i].lit /\ toks[i].c = "|"}
  IN IF bars = {} THEN <<toks>>
     ELSE LET i == CHOOSE k \in bars : \A m \in bars : k <= m
          IN <<SubSeq(toks, 1, i - 1)>>
               \o re_alternatives(SubSeq(toks, i + 1, Len(toks)))

\* one token against one character, with re.IGNORECASE
re_token_match(tk, ch) ==
  IF tk.lit THEN lower_char(tk.c) = lower_char(ch) ELSE tk.c = "."

\* re.search(pattern, s, re.IGNORECASE) finds a match
re_search(pattern, s) ==
  LET alts == re_alternatives(re_tokens(pattern))
  IN \E a \in 1..Len(alts) :
       \E i \in 0..(Len(s) - Len(alts[a])) :
          \A j \in 1..Len(alts[a]) : re_token_match(alts[a][j], s[i + j])

\* Series.str.contains(pattern, case=False, na=False) on one title
str_contains(title, pattern) == re_search(pattern, title)

(***************************************************************************)
(* Petition records and datasets                                           *)
(***************************************************************************)
T_nhs == <<"F","u","n","d"," ","t","h","e"," ","N","H","S"," ","p","r","o","p","e","r","l","y">>
T_fireworks == <<"B","a","n"," ","f","i","r","e","w","o","r","k","s">>
T_tax == <<"C","u","t"," ","f","u","e","l"," ","t","a","x">>
T_health == <<"F","r","e","e"," ","h","e","a","l","t","h","c","a","r","e">>
T_eu == <<"L","e","a","v","e"," ","t","h","e"," ","E",".","U","."," ","n","o","w">>

S_closed == <<"c","l","o","s","e","d">>
S_open == <<"o","p","e","n">>
S_rejected == <<"r","e","j","e","c","t","e","d">>
S_Rejected == <<"R","e","j","e","c","t","e","d">>
S_Closed == <<"C","l","o","s","e","d">>
S_OPEN == <<"O","P","E","N">>

\* one row of the dataframe: the four columns of the ingested sheet
Row(p, u, s, n) == [Petition |-> p, URL |-> u, State |-> s, Signatures_Count |-> n]

R_nhs == Row(T_nhs, "u1", S_closed, 100000)
R_fireworks == Row(T_fireworks, "u2", S_open, 100000)
R_tax == Row(T_tax, "u3", S_Rejected, 50000)
R_health == Row(T_health, "u4", S_Closed, 1500000)
R_eu == Row(T_eu, "u5", S_open, 20)

\* the rows the remote sheet may hold
Pool == {R_nhs, R_fireworks, R_tax, R_health, R_eu}

\* the set of rows of a dataframe
Rows(df) == {df[i] : i \in 1..Len(df)}

\* the orders in which the rows at positions I of df can come out of a sort:
\* any row that no other row must precede comes first
RECURSIVE sort_orders(_, _, _, _)
sort_orders(df, I, by, ascending) ==
  LET key_lt(a, b) == IF by = "Petition" THEN str_lt(a.Petition, b.Petition)
                      ELSE a.Signatures_Count < b.Signatures_Count
      before(a, b) == IF ascending THEN key_lt(a, b) ELSE key_lt(b, a)
      first == {i \in I : \A j \in I : ~before(df[j], df[i])}
  IN IF I = {} THEN {<<>>}
     ELSE UNION {{<<df[i]>> \o rest :
                    rest \in sort_orders(df, I \ {i}, by, ascending)} : i \in first}

\* DataFrame.sort_values(by='Signatures Count' | 'Petition', ascending): the
\* default kind is quicksort, which is not stable, so rows with equal keys come
\* out in any order
sort_values(df, by, ascending) == sort_orders(df, 1..Len(df), by, ascending)

\* DataFrame.head(n) for n >= 0
head(df, n) == SubSeq(df, 1, IF n < Len(df) THEN n ELSE Len(df))

\* fetch_petition_data: what a successful fetch of a sheet of n distinct rows
\* can return, the rows sorted by signatures descending
fetch_petition_data(n) ==
  UNION {sort_values(d, "Signatures Count", FALSE) :
           d \in {s \in [1..n -> Pool] : \A i, j \in 1..n : s[i] = s[j] => i = j}}

\* the non-empty dataframes of at most max rows that ingestion can produce
Datasets(max) == UNION {fetch_petition_data(n) : n \in 1..max}

\* a long sheet: open petitions "NHS A", "NHS B", ... with falling signatures,
\* the rows from the twentieth on with equal signatures; the first twenty
\* rows have 1,000,000 signatures together
long_row(i) ==
  Row(<<"N","H","S"," ", Ascii[6 + i]>>, "u" \o ToString(i), S_open,
      40500 + 1000 * (IF i < 20 THEN 20 - i ELSE 0))
LongDatasets ==
  sort_values([i \in 1..LongSheet |-> long_row(i)], "Signatures Count", FALSE)

(***************************************************************************)
(* Filter Specification: the `filters` object of the model's JSON reply    *)
(***************************************************************************)
\* a JSON value of a field: t is its type, n its number, l its list of texts
Absent == [t |-> "absent", n |-> 0, l |-> <<>>]
Null == [t |-> "null", n |-> 0, l |-> <<>>]
Num(k) == [t |-> "num", n |-> k, l |-> <<>>]
\* a non-empty text where a number or a list is expected
Text == [t |-> "str", n |-> 0, l |-> <<>>]
List(texts) == [t |-> "list", n |-> 0, l |-> texts]
\* a non-empty list with an element that is not text
BadList == [t |-> "badlist", n |-> 0, l |-> <<>>]

K_nhs == <<"n","h","s">>
K_n_s == <<"n",".","s">>
K_TAX == <<"T","A","X">>
K_ban == <<"b","a","n">>
K_nhs_tax == <<"n","h","s","|","t","a","x">>

\* the `filters` argument: t = "dict" for a JSON object, otherwise null or text
Filters(mn, mx, st, kw, lim, sb) ==
  [t |-> "dict", signature_min |-> mn, signature_max |-> mx, states |-> st,
   keywords |-> kw, limit |-> lim, sort_by |-> sb]

\* the {} that ai_response.get('filters', {}) defaults to
EmptyFilters == Filters(Absent, Absent, Absent, Absent, Absent, "absent")
NullFilters == [EmptyFilters EXCEPT !.t = "null"]
TextFilters == [EmptyFilters EXCEPT !.t = "str"]

\* outcome of a call: st = "ok" with the dataframe returned, or "raised"
Ok(df) == [st |-> "ok", df |-> df]
Raised == [st |-> "raised", df |-> <<>>]
NotRun == [st |-> "none", df |-> <<>>]

(***************************************************************************)
(* Filter Engine                                                           *)
(***************************************************************************)
\* filters.get(k) is truthy and a list: a non-empty JSON array
is_list(v) == v.t \in {"list", "badlist"} /\ (v.t = "list" => v.l # <<>>)

\* the range filters of apply_filters
sig_min_test_strict(r, f) == f.signature_min.t = "num" => r.Signatures_Count > f.signature_min.n
sig_min_test(r, f) == f.signature_min.t = "num" => r.Signatures_Count >= f.signature_min.n
sig_max_test(r, f) == f.signature_max.t = "num" => r.Signatures_Count <= f.signature_max.n

\* the state filter: State.str.lower().isin(states_lower)
states_test(r, f) ==
  is_list(f.states) =>
    \E i \in 1..Len(f.states.l) : str_lower(r.State) = str_lower(f.states.l[i])

\* the pattern of the keyword filter: '|'.join(re.escape(k) for k in keywords)
keywords_pattern(kws) == join_bar([i \in 1..Len(kws) |-> re_escape(kws[i])])

\* the keyword filter
keywords_test(r, f) ==
  is_list(f.keywords) => str_contains(r.Petition, keywords_pattern(f.keywords.l))

\* the comparisons and comprehensions of apply_filters that raise: a dataframe
\* column against text, .lower() or re.escape on a non-text element, .get on a
\* filters value that is not a dict
filters_raise(f) ==
  \/ f.t # "dict"
  \/ f.signature_min.t = "str"
  \/ f.signature_max.t = "str"
  \/ f.states.t = "badlist"
  \/ f.keywords.t = "badlist"

\* rows kept by the range, state and keyword filters, in dataframe order
filter_rows(df, f) ==
  SelectSeq(df, LAMBDA r : /\ sig_min_test(r, f) /\ sig_max_test(r, f)
                           /\ states_test(r, f) /\ keywords_test(r, f))

\* the sorting step: an absent sort_by defaults to signatures_desc, any other
\* value than the three known ones leaves the order alone
sort_rows(df, sort_by) ==
  IF sort_by \in {"absent", "signatures_desc"}
    THEN sort_values(df, "Signatures Count", FALSE)
  ELSE IF sort_by = "signatures_asc" THEN sort_values(df, "Signatures Count", TRUE)
  ELSE IF sort_by = "alphabetical" THEN sort_values(df, "Petition", TRUE)
  ELSE {df}

\* the limit step: head(limit) when limit is an int > 0
limit_rows_nonneg(df, lim) == IF lim.t = "num" /\ lim.n >= 0 THEN head(df, lim.n) ELSE df
limit_rows(df, lim) == IF lim.t = "num" /\ lim.n > 0 THEN head(df, lim.n) ELSE df

\* apply_filters(df, filters): the outcomes the call can have
apply_filters_unguarded(df, f) ==
  IF filters_raise(f) THEN {Raised}
  ELSE {Ok(limit_rows(s, f.limit)) : s \in sort_rows(filter_rows(df, f), f.sort_by)}
apply_filters(df, f) ==
  IF df = <<>> THEN {Ok(df)}
  ELSE IF filters_raise(f) THEN {Raised}
  ELSE {Ok(limit_rows(s, f.limit)) : s \in sort_rows(filter_rows(df, f), f.sort_by)}

(***************************************************************************)
(* Basic Statistical Analysis and Narrative Analysis Generator             *)
(***************************************************************************)
\* the thresholds of the qualitative remark
HighlySuccessful == 1000000
NotableInterest == 100000

RECURSIVE sum_signatures(_)
\* df['Signatures Count'].sum()
sum_signatures(df) ==
  IF df = <<>> THEN 0 ELSE Head(df).Signatures_Count + sum_signatures(Tail(df))

\* f"{x:.0f}" of total / count: rounded to nearest, ties to even
format_mean(total, count) ==
  LET q == total \div count
      r == total % count
  IN IF 2 * r > count THEN q + 1
     ELSE IF 2 * r < count THEN q
     ELSE IF q % 2 = 0 THEN q ELSE q + 1

\* df.loc[df['Signatures Count'].idxmax()]: the first row with the maximum
top_petition(df) ==
  df[CHOOSE i \in 1..Len(df) :
       /\ \A j \in 1..Len(df) : df[j].Signatures_Count <= df[i].Signatures_Count
       /\ \A j \in 1..(i - 1) : df[j].Signatures_Count < df[i].Signatures_Count]

\* df['State'].value_counts()[s]
state_count(df, s) == Cardinality({i \in 1..Len(df) : df[i].State = s})

\* the candidates for state_counts.index[0]: value_counts sorts by count with
\* an unstable sort, so any state with the largest count can come first
most_common_states(df) ==
  {s \in {df[i].State : i \in 1..Len(df)} :
     \A i \in 1..Len(df) : state_count(df, df[i].State) <= state_count(df, s)}

\* the remark appended by generate_basic_analysis
remark_at_least(total) ==
  IF total >= HighlySuccessful THEN "highly successful"
  ELSE IF total >= NotableInterest THEN "notable public interest"
  ELSE "niche or specialized"
remark(total) ==
  IF total > HighlySuccessful THEN "highly successful"
  ELSE IF total > NotableInterest THEN "notable public interest"
  ELSE "niche or specialized"

\* an analysis value: kind names the text, the other fields are the numbers
\* and names formatted into it
AnalysisText(kind) ==
  [kind |-> kind, count |-> 0, total |-> 0, mean |-> 0, top |-> <<>>,
   state |-> <<>>, state_n |-> 0, remark |-> ""]

\* generate_basic_analysis(df): the texts the call can return
generate_basic_analysis(df) ==
  IF df = <<>> THEN {AnalysisText("No petitions found matching your criteria.")}
  ELSE {[kind |-> "Analysis Results", count |-> Len(df),
         total |-> sum_signatures(df),
         mean |-> format_mean(sum_signatures(df), Len(df)),
         top |-> top_petition(df).Petition,
         state |-> s, state_n |-> state_count(df, s),
         remark |-> remark(sum_signatures(df))] : s \in most_common_states(df)}

\* outcomes of the second model call
AnalysisReplies == {"exception", "null", "empty", "text"}

\* generate_analysis(filtered_df, analysis_request, original_query)
generate_analysis(df, areply) ==
  IF df = <<>>
    THEN {AnalysisText("No petitions found matching the specified criteria.")}
  ELSE IF areply = "exception" THEN generate_basic_analysis(df)
  ELSE IF areply = "null" THEN {AnalysisText("None")}
  ELSE IF areply = "empty" THEN {AnalysisText("")}
  ELSE {AnalysisText("model commentary")}

(***************************************************************************)
(* Fallback Interpreter                                                    *)
(***************************************************************************)
health == <<"h","e","a","l","t","h">>
nhs == <<"n","h","s">>
education == <<"e","d","u","c","a","t","i","o","n">>
school == <<"s","c","h","o","o","l">>
tax == <<"t","a","x">>
brexit == <<"b","r","e","x","i","t">>
eu == <<"e","u">>
environment == <<"e","n","v","i","r","o","n","m","e","n","t">>
climate == <<"c","l","i","m","a","t","e">>
transport == <<"t","r","a","n","s","p","o","r","t">>
housing == <<"h","o","u","s","i","n","g">>
benefit == <<"b","e","n","e","f","i","t">>
pension == <<"p","e","n","s","i","o","n">>
immigration == <<"i","m","m","i","g","r","a","t","i","o","n">>
high == <<"h","i","g","h">>
popular == <<"p","o","p","u","l","a","r">>
most == <<"m","o","s","t">>
top == <<"t","o","p">>
over_100k == <<"o","v","e","r"," ","1","0","0","k">>
above_50k == <<"a","b","o","v","e"," ","5","0","k">>
more_than == <<"m","o","r","e"," ","t","h","a","n">>
highest == <<"h","i","g","h","e","s","t">>

\* the signature_keywords dict, in insertion order; None is Null
signature_keywords ==
  <<[keyword |-> high, threshold |-> Num(100000)],
    [keyword |-> popular, threshold |-> Num(50000)],
    [keyword |-> most, threshold |-> Null],
    [keyword |-> top, threshold |-> Null],
    [keyword |-> over_100k, threshold |-> Num(100000)],
    [keyword |-> above_50k, threshold |-> Num(50000)],
    [keyword |-> more_than, threshold |-> Null]>>

\* the topic_keywords list
topic_keywords ==
  <<health, nhs, education, school, tax, brexit, eu, environment,
    climate, transport, housing, benefit, pension, immigration>>

\* head(20)
TopResults == 20

\* the entries of signature_keywords that pass `keyword in query_lower and threshold`
signature_hits(query_lower) ==
  {i \in 1..Len(signature_keywords) :
     /\ str_in(signature_keywords[i].keyword, query_lower)
     /\ signature_keywords[i].threshold.t = "num"
     /\ signature_keywords[i].threshold.n # 0}

\* the threshold applied: that of the first hit (the loop breaks there), Null if none
signature_threshold_last(query_lower) ==
  LET hits == signature_hits(query_lower)
  IN IF hits = {} THEN Null
     ELSE signature_keywords[CHOOSE i \in hits : \A j \in hits : i >= j].threshold
signature_threshold(query_lower) ==
  LET hits == signature_hits(query_lower)
  IN IF hits = {} THEN Null
     ELSE signature_keywords[CHOOSE i \in hits : \A j \in hits : i <= j].threshold

\* the state of the if/elif chain: closed, then rejected, then open; <<>> if none
state_word(query_lower) ==
  IF str_in(S_closed, query_lower) THEN S_closed
  ELSE IF str_in(S_rejected, query_lower) THEN S_rejected
  ELSE IF str_in(S_open, query_lower) THEN S_open
  ELSE <<>>

\* the first topic keyword found in the query (the loop breaks there); <<>> if none
topic_word(query_lower) ==
  LET hits == {i \in 1..Len(topic_keywords) : str_in(topic_keywords[i], query_lower)}
  IN IF hits = {} THEN <<>>
     ELSE topic_keywords[CHOOSE i \in hits : \A j \in hits : i <= j]

\* any(word in query_lower for word in ['top', 'most', 'highest'])
wants_top_no_top(query_lower) ==
  \E w \in {most, highest} : str_in(w, query_lower)
wants_top(query_lower) ==
  \E w \in {top, most, highest} : str_in(w, query_lower)

\* a note appended to the interpretation text
Note(text, n, w) == [note |-> text, n |-> n, w |-> w]

\* what the fallback reads off the lower-cased query: the threshold, the state
\* word and the topic word it filters by, whether it truncates, and the notes
\* it appends to the interpretation, in order
fallback_plan(query_lower) ==
  LET th == signature_threshold(query_lower)
      sw == state_word(query_lower)
      tw == topic_word(query_lower)
      tr == wants_top(query_lower)
  IN [threshold |-> th, state |-> sw, topic |-> tw, truncate |-> tr,
      notes |->
        (IF th.t = "num" THEN <<Note("filtered for signatures >=", th.n, <<>>)>> ELSE <<>>)
        \o (IF sw # <<>> THEN <<Note("filtered for state", 0, sw)>> ELSE <<>>)
        \o (IF tw # <<>> THEN <<Note("filtered for word in title", 0, tw)>> ELSE <<>>)
        \o (IF tr THEN <<Note("showing top 20 results", 0, <<>>)>> ELSE <<>>)]

\* the rows the three filters of the fallback keep, in dataframe order
fallback_rows_any_topic(plan, df) ==
  SelectSeq(df, LAMBDA r :
    /\ plan.threshold.t = "num" => r.Signatures_Count >= plan.threshold.n
    /\ plan.state # <<>> => str_lower(r.State) = plan.state
    /\ plan.topic # <<>> =>
         \E i \in 1..Len(topic_keywords) : str_contains(r.Petition, topic_keywords[i]))
fallback_rows(plan, df) ==
  SelectSeq(df, LAMBDA r :
    /\ plan.threshold.t = "num" => r.Signatures_Count >= plan.threshold.n
    /\ plan.state # <<>> => str_lower(r.State) = plan.state
    /\ plan.topic # <<>> => str_contains(r.Petition, plan.topic))

\* an interpretation text: its opening, the query quoted in it, the notes
Interpretation(opening, query, notes) ==
  [opening |-> opening, query |-> query, notes |-> notes]

\* the model's reply to the first call: kind is what came back, interpretation
\* and filters describe the keys of a JSON object
Reply(kind, interp, f) == [kind |-> kind, interpretation |-> interp, filters |-> f]
NoReply == Reply("none", "absent", EmptyFilters)

\* a result dict: keys are the keys present
Bundle(keys, interp, df, analysis, raw) ==
  [keys |-> keys, interpretation |-> interp, filtered_data |-> df,
   analysis |-> analysis, raw_ai_response |-> raw]
NoBundle ==
  Bundle({}, Interpretation("", <<>>, <<>>), <<>>, AnalysisText(""), NoReply)

\* the query texts typed into the query box
Q_closed_health == <<"S","h","o","w"," ","c","l","o","s","e","d"," ","p","e","t","i","t","i","o","n","s"," ","a","b","o","u","t"," ","h","e","a","l","t","h","c","a","r","e">>
Q_top == <<"t","o","p"," ","p","e","t","i","t","i","o","n","s">>
Q_popular_open == <<"M","o","s","t"," ","p","o","p","u","l","a","r"," ","o","p","e","n"," ","N","H","S"," ","p","e","t","i","t","i","o","n","s">>
Q_high_tax == <<"h","i","g","h"," ","t","a","x">>
Q_popular_over == <<"p","o","p","u","l","a","r"," ","o","v","e","r"," ","1","0","0","k">>
Q_top_above == <<"T","o","p"," ","a","b","o","v","e"," ","5","0","k">>

Queries ==
  {Q_closed_health, Q_top, Q_popular_open, Q_high_tax, Q_popular_over, Q_top_above}
SessionQueries == {Q_closed_health, Q_popular_open}

\* query_lower and what the fallback reads off it, for each query text
fallback_plans == [q \in Queries |-> fallback_plan(str_lower(q))]

\* fallback_query_processing(query, df): the dicts the call can return
fallback_query_processing(query, df) ==
  LET plan == fallback_plans[query]
      kept == fallback_rows(plan, df)
      final(s) == IF plan.truncate THEN head(s, TopResults) ELSE s
  IN UNION {{Bundle({"interpretation", "filtered_data", "analysis"},
                    Interpretation("Processed query using keyword matching", query,
                                   plan.notes),
                    final(s), a, NoReply) :
               a \in generate_basic_analysis(final(s))} :
            s \in sort_values(kept, "Signatures Count", FALSE)}

(***************************************************************************)
(* Query Interpreter                                                       *)
(***************************************************************************)
\* the replies to the first model call that raise before apply_filters is
\* called: the call itself raising, content None, json.loads failing, and a
\* JSON value without .get (an array, a number, a text)
reply_raises_null_ok(reply) == reply.kind \in {"exception", "unparseable", "non_object"}
reply_raises(reply) == reply.kind \in {"exception", "null", "unparseable", "non_object"}

\* ai_response.get('filters', {})
reply_filters(reply) ==
  IF reply.filters.t = "absent" THEN EmptyFilters ELSE reply.filters

\* ai_response.get('interpretation', 'Query processed')
reply_interpretation(reply) ==
  IF reply.interpretation = "absent" THEN Interpretation("Query processed", <<>>, <<>>)
  ELSE IF reply.interpretation = "null" THEN Interpretation("None", <<>>, <<>>)
  ELSE Interpretation("model interpretation", <<>>, <<>>)

\* what a call returns to its caller: the dict, or raised, and the functions it ran
Returned(bundle, ran) == [st |-> "ok", bundle |-> bundle, calls |-> ran]
Propagated(ran) == [st |-> "raised", bundle |-> NoBundle, calls |-> ran]

\* the except branch: the fallback's dict with the error note added
except_branch(query, df, ran) ==
  {Returned([b EXCEPT !.keys = @ \cup {"error"}],
            ran \o <<"fallback_query_processing">>) :
     b \in fallback_query_processing(query, df)}

\* the try body from apply_filters on, for a reply that parsed
try_tail_uncaught(query, df, reply, areply) ==
  UNION {IF o.st = "raised"
           THEN {Propagated(<<"create", "apply_filters">>)}
           ELSE {Returned(Bundle({"interpretation", "filtered_data", "analysis",
                                  "raw_ai_response"},
                                 reply_interpretation(reply), o.df, a, reply),
                          <<"create", "apply_filters", "generate_analysis">>) :
                   a \in generate_analysis(o.df, areply)} :
         o \in apply_filters(df, reply_filters(reply))}
try_tail(query, df, reply, areply) ==
  UNION {IF o.st = "raised"
           THEN except_branch(query, df, <<"create", "apply_filters">>)
           ELSE {Returned(Bundle({"interpretation", "filtered_data", "analysis",
                                  "raw_ai_response"},
                                 reply_interpretation(reply), o.df, a, reply),
                          <<"create", "apply_filters", "generate_analysis">>) :
                   a \in generate_analysis(o.df, areply)} :
         o \in apply_filters(df, reply_filters(reply))}

\* process_natural_language_query(query, df), given the replies of the two
\* model calls: what the call can return
process_natural_language_query(query, df, reply, areply) ==
  IF reply_raises(reply) THEN except_branch(query, df, <<"create">>)
  ELSE try_tail(query, df, reply, areply)


(***************************************************************************)
(* Inputs                                                                  *)
(***************************************************************************)

\* `filters` values of a reply: the key missing, null, a text, and objects
AbsentFilters == [EmptyFilters EXCEPT !.t = "absent"]
F_all == Filters(Null, Null, Null, Null, Null, "signatures_desc")
F_min_text == [F_all EXCEPT !.signature_min = Text]
F_keywords_bad == [F_all EXCEPT !.keywords = BadList]
F_closed_nhs ==
  Filters(Num(50000), Null, List(<<S_Closed>>), List(<<K_nhs>>), Null, "signatures_asc")
F_first == [F_all EXCEPT !.limit = Num(1), !.sort_by = "alphabetical"]

\* the replies the first model call can give
Replies(filter_values) ==
  {Reply(k, "absent", EmptyFilters) :
     k \in {"exception", "null", "unparseable", "non_object"}}
  \cup {Reply("object", i, f) : i \in {"absent", "text"}, f \in filter_values}

SessionReplies == Replies({AbsentFilters, NullFilters, F_all, F_min_text})
QueryReplies ==
  Replies({AbsentFilters, NullFilters, TextFilters, F_all, F_min_text,
           F_keywords_bad, F_closed_nhs, F_first})
           \cup {Reply("object", "null", F_all)}

\* the Filter Specifications handed to apply_filters: every field well-formed,
\* or exactly one field malformed
WellFormed ==
  {Filters(mn, mx, st, kw, lim, sb) :
     mn \in {Null, Num(50000), Num(100000)},
     mx \in {Null, Num(100000)},
     st \in {Null, List(<<S_closed>>), List(<<S_OPEN, S_rejected>>)},
     kw \in {Null, List(<<K_nhs>>), List(<<K_n_s>>), List(<<K_TAX, K_ban>>),
             List(<<K_nhs_tax>>)},
     lim \in {Null, Num(-1), Num(0), Num(1), Num(2)},
     sb \in {"absent", "signatures_desc", "signatures_asc", "alphabetical"}}

OneMalformed ==
  {[f EXCEPT !.signature_min = Text] : f \in WellFormed}
  \cup {[f EXCEPT !.signature_max = Text] : f \in WellFormed}
  \cup {[f EXCEPT !.states = v] : f \in WellFormed, v \in {Text, BadList}}
  \cup {[f EXCEPT !.keywords = v] : f \in WellFormed, v \in {Text, BadList}}
  \cup {[f EXCEPT !.limit = Text] : f \in WellFormed}
  \cup {[f EXCEPT !.sort_by = v] : f \in WellFormed, v \in {"null", "bogus"}}

FilterSpecs == WellFormed \cup OneMalformed

(***************************************************************************)
(* The session (app.py)                                                    *)
(***************************************************************************)
\* st.session_state.petition_data: None, or a dataframe
NoData == [loaded |-> FALSE, df |-> <<>>]
Data(df) == [loaded |-> TRUE, df |-> df]
\* st.session_state.query_results: None, or a result dict
NoResults == [present |-> FALSE, bundle |-> NoBundle]
Results(b) == [present |-> TRUE, bundle |-> b]

\* the state a script run starts from
Init ==
  /\ petition_data = NoData
  /\ query_results = NoResults
  /\ query_input = <<>>
  /\ ai_reply = NoReply
  /\ analysis_reply = "none"
  /\ calls = <<>>
  /\ filters = EmptyFilters
  /\ filtered = NotRun
  /\ refiltered = NotRun

\* the "Load/Refresh Data" button: the fetch raises, returns an empty
\* dataframe, or returns a dataframe that replaces the session's
Fetched == {Raised} \cup {Ok(d) : d \in Datasets(MaxSheet) \cup {<<>>}}
LoadRefresh ==
  /\ \E data \in Fetched :
       IF data.st = "ok" /\ data.df # <<>>
         THEN /\ petition_data' = Data(data.df)
              /\ calls' = <<"fetch_petition_data", "st.success">>
         ELSE /\ petition_data' = petition_data
              /\ calls' = <<"fetch_petition_data", "st.error">>
  /\ UNCHANGED <<query_input, ai_reply, analysis_reply, query_results,
                 filters, filtered, refiltered>>

\* the caller's dataframe after a call that returned the frame out: the
\* functions filter, sort and truncate a copy (filtered_df = df.copy()) and
\* rebind the copy's name, they only read df itself
held_after_in_place(df, out) == out
held_after(df, out) == df

\* what a query run leaves behind: the query, the replies of the model calls
\* that were made, and the result r of process_natural_language_query
store_result(df, q, reply, areply, r) ==
  /\ query_input' = q
  /\ ai_reply' = reply
  /\ analysis_reply' =
       IF r.calls = <<"create", "apply_filters", "generate_analysis">>
          /\ r.bundle.filtered_data # <<>>
         THEN areply ELSE "none"
  /\ query_results' = IF r.st = "ok" THEN Results(r.bundle) ELSE NoResults
  /\ calls' = r.calls \o (IF r.st = "ok" THEN <<>> ELSE <<"st.error">>)
  /\ petition_data' =
       Data(held_after(df, IF r.st = "ok" THEN r.bundle.filtered_data ELSE df))

\* the body of a query run
run_query(df, queries, replies) ==
  \E q \in queries, reply \in replies, areply \in AnalysisReplies :
    \E r \in process_natural_language_query(q, df, reply, areply) :
      store_result(df, q, reply, areply, r)

\* process_natural_language_query on the session's datasets, queries and
\* replies, tabulated
session_calls ==
  [df \in Datasets(MaxSheet) |-> [q \in SessionQueries |->
     [reply \in SessionReplies |-> [areply \in AnalysisReplies |->
        process_natural_language_query(q, df, reply, areply)]]]]

\* the "Process Query" button, shown once data is loaded
ProcessQuery ==
  /\ petition_data.loaded
  /\ \E q \in SessionQueries, reply \in SessionReplies, areply \in AnalysisReplies :
       \E r \in session_calls[petition_data.df][q][reply][areply] :
         store_result(petition_data.df, q, reply, areply, r)
  /\ UNCHANGED <<filters, filtered, refiltered>>

Next == LoadRefresh \/ ProcessQuery

Spec == Init /\ [][Next]_vars

(***************************************************************************)
(* The Query Interpreter and the Fallback Interpreter called on their own  *)
(***************************************************************************)
InitCall(datasets) ==
  /\ petition_data \in {Data(d) : d \in datasets}
  /\ query_results = NoResults
  /\ query_input = <<>>
  /\ ai_reply = NoReply
  /\ analysis_reply = "none"
  /\ calls = <<>>
  /\ filters = EmptyFilters
  /\ filtered = NotRun
  /\ refiltered = NotRun

\* the dataframes the two interpreters are called on: the short ones, the
\* empty one and the long ones
InitQuery == InitCall(Datasets(MaxLen) \cup {<<>>} \cup LongDatasets)

\* one call of process_natural_language_query(query, df)
Interpret ==
  /\ calls = <<>>
  /\ run_query(petition_data.df, Queries, QueryReplies)
  /\ UNCHANGED <<filters, filtered, refiltered>>

\* one call of fallback_query_processing(query, df)
Fallback ==
  /\ calls = <<>>
  /\ \E q \in Queries : \E b \in fallback_query_processing(q, petition_data.df) :
       /\ query_input' = q
       /\ query_results' = Results(b)
  /\ calls' = <<"fallback_query_processing">>
  /\ UNCHANGED <<petition_data, ai_reply, analysis_reply, filters, filtered, refiltered>>

NextQuery == Interpret \/ Fallback

SpecQuery == InitQuery /\ [][NextQuery]_vars

(***************************************************************************)
(* The Filter Engine called on its own                                     *)
(***************************************************************************)
InitFilter == InitCall(Datasets(MaxLen) \cup {<<>>})

\* one call of apply_filters(df, filters)
Apply ==
  /\ filtered.st = "none"
  /\ \E f \in FilterSpecs :
       /\ filters' = f
       /\ filtered' \in apply_filters(petition_data.df, f)
  /\ calls' = <<"apply_filters">>
  /\ UNCHANGED <<petition_data, query_input, ai_reply, analysis_reply,
                 query_results, refiltered>>

\* apply_filters called again, on its own output and with the same filters
Reapply ==
  /\ filtered.st = "ok"
  /\ refiltered.st = "none"
  /\ refiltered' \in apply_filters(filtered.df, filters)
  /\ calls' = <<"apply_filters", "apply_filters">>
  /\ UNCHANGED <<petition_data, query_input, ai_reply, analysis_reply,
                 query_results, filters, filtered>>

NextFilter == Apply \/ Reapply

SpecFilter == InitFilter /\ [][NextFilter]_vars

(***************************************************************************)
(* Properties                                                              *)
(***************************************************************************)
\* the last thing that ran was process_natural_language_query
QueryRan == calls # <<>> /\ calls[1] = "create"
\* the Fallback Interpreter ran during the last call
FallbackRan == \E i \in 1..Len(calls) : calls[i] = "fallback_query_processing"
\* apply_filters was called during the last call
FilterEngineRan == \E i \in 1..Len(calls) : calls[i] = "apply_filters"
\* the three fields every Query Result Bundle has
BundleKeys == {"interpretation", "filtered_data", "analysis"}

\* C1: process_natural_language_query never raises: for every query, every
\* dataset (the empty one included) and every outcome of the model call, the
\* caller gets a dict with interpretation, filtered_data and analysis, whose
\* filtered_data are rows of the dataset; the error note is there exactly when
\* the fallback produced the dict.
C1_NeverRaises ==
  QueryRan =>
    /\ query_results.present
    /\ BundleKeys \subseteq query_results.bundle.keys
    /\ Rows(query_results.bundle.filtered_data) \subseteq Rows(petition_data.df)
    /\ ("error" \in query_results.bundle.keys) <=> FallbackRan
    /\ \A i \in 1..Len(calls) : calls[i] # "st.error"

\* C1 witness: the model's filters made apply_filters raise on a non-empty
\* dataset, and the caller still got a dict, with the error note.
C1_Witness ==
  /\ QueryRan
  /\ ai_reply.filters = F_min_text
  /\ petition_data.df # <<>>
  /\ FilterEngineRan
  /\ query_results.present
  /\ "error" \in query_results.bundle.keys

\* C2: a reply that is a JSON object without a `filters` key ends in the
\* Fallback Interpreter: the dict returned is the fallback's, with its error
\* note. (The code takes {} for the missing key and stays on the primary path.)
C2_MissingFiltersFallsBack ==
  (QueryRan /\ ai_reply.kind = "object" /\ ai_reply.filters.t = "absent") =>
     /\ query_results.present
     /\ FallbackRan
     /\ "error" \in query_results.bundle.keys

\* C3: when the first model call raises, returns no content, or returns
\* content that does not parse as a JSON object, apply_filters is not called
\* and interpretation, filtered_data and analysis are together one result of
\* fallback_query_processing on the same query and dataset.
C3_FullFallback ==
  (QueryRan /\ ai_reply.kind \in {"exception", "null", "unparseable", "non_object"}) =>
     /\ ~FilterEngineRan
     /\ query_results.present
     /\ "raw_ai_response" \notin query_results.bundle.keys
     /\ \E b \in fallback_query_processing(query_input, petition_data.df) :
          /\ query_results.bundle.interpretation = b.interpretation
          /\ query_results.bundle.filtered_data = b.filtered_data
          /\ query_results.bundle.analysis = b.analysis

\* C3 witness: the model returned no content and the session got the
\* fallback's dict, with rows in it.
C3_Witness ==
  /\ QueryRan
  /\ ai_reply.kind = "null"
  /\ query_results.present
  /\ query_results.bundle.filtered_data # <<>>
  /\ query_results.bundle.analysis.kind = "Analysis Results"

\* the call of C4: the fallback on "Show closed petitions about healthcare" and
\* the dataset of "Fund the NHS properly" (closed) and "Ban fireworks" (open)
C4_Case ==
  /\ calls = <<"fallback_query_processing">>
  /\ query_input = Q_closed_health
  /\ Rows(petition_data.df) = {R_nhs, R_fireworks}

\* C4 as stated: the fallback returns exactly "Fund the NHS properly".
C4_Original == C4_Case => query_results.bundle.filtered_data = <<R_nhs>>

\* C4 as amended: the fallback returns no row: it filters for closed petitions
\* and for 'health' in the title, the first topic keyword the query contains,
\* and "Fund the NHS properly" does not contain 'health'.
C4_ClosedHealthcare ==
  C4_Case =>
    /\ query_results.bundle.filtered_data = <<>>
    /\ query_results.bundle.interpretation.notes =
         <<Note("filtered for state", 0, S_closed),
           Note("filtered for word in title", 0, health)>>

\* C4 witness: that call was made and returned.
C4_Witness == C4_Case /\ query_results.present

\* apply_filters returned normally from its first call
Filtered == filtered.st = "ok"
\* row r of a dataframe is at this position
position(df, r) == CHOOSE i \in 1..Len(df) : df[i] = r
\* keyword k is a substring of the title, ignoring case
literal_in(k, title) ==
  \E i \in 0..(Len(title) - Len(k)) :
     str_lower(SubSeq(title, i + 1, i + Len(k))) = str_lower(k)
\* the rows of the dataset within the signature bounds that satisfy the state
\* filter and the keyword filter, where given
matching(df, f) ==
  {r \in Rows(df) :
     /\ f.signature_min.t = "num" => r.Signatures_Count >= f.signature_min.n
     /\ f.signature_max.t = "num" => r.Signatures_Count <= f.signature_max.n
     /\ f.states.t = "list" =>
          \E i \in 1..Len(f.states.l) : str_lower(f.states.l[i]) = str_lower(r.State)
     /\ f.keywords.t = "list" =>
          \E i \in 1..Len(f.keywords.l) : literal_in(f.keywords.l[i], r.Petition)}
\* the limit truncates: it is an integer > 0
truncating(f) == f.limit.t = "num" /\ f.limit.n > 0

\* C5 as stated: for every well-formed Filter Specification (m <= M where both
\* are given) the rows returned are exactly the rows within the bounds that
\* satisfy the state and keyword filters.
C5_Original ==
  (Filtered /\ filters \in WellFormed) =>
     Rows(filtered.df) = matching(petition_data.df, filters)

\* C5 as amended: that holds when the specification has no positive limit;
\* with a positive limit the rows returned are among those rows.
C5_RangeFilter ==
  (Filtered /\ filters \in WellFormed) =>
     /\ Rows(filtered.df) \subseteq matching(petition_data.df, filters)
     /\ ~truncating(filters) =>
          /\ Rows(filtered.df) = matching(petition_data.df, filters)
          /\ Len(filtered.df) = Cardinality(matching(petition_data.df, filters))

\* C5 witness: both bounds, a state filter and a keyword filter given, no
\* limit, three rows in, one row out.
C5_Witness ==
  /\ Filtered
  /\ filters.signature_min = Num(100000) /\ filters.signature_max = Num(100000)
  /\ filters.states.t = "list" /\ filters.keywords.t = "list"
  /\ filters.limit = Null
  /\ Len(petition_data.df) = 3
  /\ filtered.df = <<R_nhs>>

\* the specification with its malformed field taken out
repaired(f) ==
  [f EXCEPT !.signature_min = IF @.t = "num" THEN @ ELSE Null,
            !.signature_max = IF @.t = "num" THEN @ ELSE Null,
            !.states = IF @.t = "list" THEN @ ELSE Null,
            !.keywords = IF @.t = "list" THEN @ ELSE Null,
            !.limit = IF @.t = "num" THEN @ ELSE Null,
            !.sort_by = IF @ \in {"signatures_asc", "alphabetical"} THEN @
                        ELSE "signatures_desc"]

\* C6: with one field of the specification malformed, apply_filters does not
\* raise and returns what it returns for the specification without that field
\* (sort_by defaulting to signatures_desc). (The code raises on a text
\* signature bound and on a list with a non-text element.)
C6_MalformedFieldIgnored ==
  (filtered.st # "none" /\ filters \in OneMalformed) =>
     /\ filtered.st = "ok"
     /\ filtered \in apply_filters(petition_data.df, repaired(filters))

\* C7: under signatures_desc and signatures_asc, rows of the output with equal
\* signatures are in the order they had in the dataset. (The code sorts with
\* an unstable sort.)
C7_StableSort ==
  (Filtered /\ filters.sort_by \in {"absent", "signatures_desc", "signatures_asc"}) =>
     \A i, j \in 1..Len(filtered.df) :
        (i < j /\ filtered.df[i].Signatures_Count = filtered.df[j].Signatures_Count)
          => position(petition_data.df, filtered.df[i])
               < position(petition_data.df, filtered.df[j])

\* row a may not come after row b in the order the specification asks for
\* (an unknown sort_by leaves the dataset's order, signatures descending)
strictly_before(a, b, sort_by) ==
  IF sort_by = "signatures_asc" THEN a.Signatures_Count < b.Signatures_Count
  ELSE IF sort_by = "alphabetical" THEN str_lt(a.Petition, b.Petition)
  ELSE a.Signatures_Count > b.Signatures_Count

\* C8: a limit that is absent or <= 0 truncates nothing; a limit k > 0 gives
\* min(k, rows left after filtering) rows; the rows kept are in sort_by order
\* and no row dropped comes before a row kept.
C8_Limit ==
  (Filtered /\ filters.limit.t \in {"absent", "null", "num"}) =>
    LET kept == Rows(filtered.df)
        left == Rows(filter_rows(petition_data.df, filters))
        n == Cardinality(left)
        k == filters.limit.n
    IN /\ Len(filtered.df) = Cardinality(kept)
       /\ kept \subseteq left
       /\ Len(filtered.df) = IF truncating(filters) /\ k < n THEN k ELSE n
       /\ \A i, j \in 1..Len(filtered.df) :
            i < j => ~strictly_before(filtered.df[j], filtered.df[i], filters.sort_by)
       /\ \A d \in left \ kept : \A r \in kept :
            ~strictly_before(d, r, filters.sort_by)

\* C8 witness: three rows left after filtering, limit 2, ascending: the two
\* rows with the fewest signatures are returned.
C8_Witness ==
  /\ Filtered
  /\ filters.limit = Num(2) /\ filters.sort_by = "signatures_asc"
  /\ petition_data.df = <<R_health, R_tax, R_eu>>
  /\ filtered.df = <<R_eu, R_tax>>

\* C9: with a keyword list, every row returned has one of the keywords as a
\* substring of its title, ignoring case and taking every character of the
\* keyword literally, and without a truncating limit every row that has one
\* (and passes the other filters) is returned.
C9_KeywordFilter ==
  (Filtered /\ filters.keywords.t = "list") =>
     /\ \A r \in Rows(filtered.df) :
          \E i \in 1..Len(filters.keywords.l) :
             literal_in(filters.keywords.l[i], r.Petition)
     /\ ~truncating(filters) =>
          \A r \in Rows(filter_rows(petition_data.df, [filters EXCEPT !.keywords = Null])) :
             (\E i \in 1..Len(filters.keywords.l) :
                 literal_in(filters.keywords.l[i], r.Petition))
               => r \in Rows(filtered.df)

\* C9 witness: keywords TAX and ban return "Cut fuel tax" and "Ban fireworks"
\* and leave "Fund the NHS properly" out.
C9_Witness ==
  /\ Filtered
  /\ filters.keywords = List(<<K_TAX, K_ban>>)
  /\ R_nhs \in Rows(petition_data.df)
  /\ Rows(filtered.df) = {R_tax, R_fireworks}

\* C10: without a limit, apply_filters on its own output with the same
\* specification returns the same rows in the same order. (The unstable sort
\* of C7 may reorder rows with equal keys on the second call.)
C10_Idempotent ==
  (refiltered.st # "none" /\ ~truncating(filters)) =>
     /\ refiltered.st = "ok"
     /\ refiltered.df = filtered.df

\* C11: on an empty dataset apply_filters returns an empty sequence and does
\* not raise, whatever the Filter Specification, malformed fields included;
\* and a well-formed specification that no row of a non-empty dataset matches
\* gives an empty sequence, not an error.
C11_EmptyInEmptyOut ==
  /\ (filtered.st # "none" /\ petition_data.df = <<>>) => filtered = Ok(<<>>)
  /\ (filtered.st # "none" /\ filters \in WellFormed
        /\ matching(petition_data.df, filters) = {}) => filtered = Ok(<<>>)

\* C11 witness: the empty dataset and a specification whose signature_min is
\* a text: the call returned the empty sequence.
C11_Witness ==
  /\ petition_data.df = <<>>
  /\ filters.signature_min = Text
  /\ filtered = Ok(<<>>)

\* the query asks for the top results: it contains top, most or highest,
\* in any case
asks_top(query) == \E w \in {top, most, highest} : literal_in(w, query)

\* C12: the fallback's rows are in non-increasing order of signatures and are
\* rows its filters keep; for a query containing top, most or highest they are
\* at most 20, as many as 20 when that many are kept, and no row left out has
\* more signatures than a row returned; for any other query every kept row is
\* returned.
C12_TopTwenty ==
  (FallbackRan /\ query_results.present) =>
    LET out == query_results.bundle.filtered_data
        kept == Rows(fallback_rows(fallback_plans[query_input], petition_data.df))
    IN /\ \A i, j \in 1..Len(out) :
            i < j => out[i].Signatures_Count >= out[j].Signatures_Count
       /\ Rows(out) \subseteq kept
       /\ Len(out) = Cardinality(Rows(out))
       /\ asks_top(query_input) =>
            /\ Len(out) <= 20
            /\ Len(out) = IF Cardinality(kept) > 20 THEN 20 ELSE Cardinality(kept)
            /\ \A d \in kept \ Rows(out) : \A r \in Rows(out) :
                 d.Signatures_Count <= r.Signatures_Count
       /\ ~asks_top(query_input) => Rows(out) = kept

\* C12 witness: "top petitions" on the long sheet: more than 20 rows are kept
\* and 20 are returned.
C12_Witness ==
  /\ FallbackRan
  /\ query_input = Q_top
  /\ Len(petition_data.df) > 20
  /\ Len(query_results.bundle.filtered_data) = 20

\* C13: when the second model call raises or returns empty or missing
\* content, the analysis is the text of generate_basic_analysis for the
\* filtered data, never null; interpretation and filtered_data stay those of
\* the primary path and the Fallback Interpreter is not entered. (The code
\* returns the content of the reply as it is, None or '' included.)
C13_AnalysisFallback ==
  (QueryRan /\ analysis_reply \in {"exception", "null", "empty"}) =>
     /\ query_results.present
     /\ ~FallbackRan
     /\ query_results.bundle.interpretation = reply_interpretation(ai_reply)
     /\ Ok(query_results.bundle.filtered_data)
          \in apply_filters(petition_data.df, reply_filters(ai_reply))
     /\ query_results.bundle.analysis
          \in generate_basic_analysis(query_results.bundle.filtered_data)

\* C14: the analysis of generate_basic_analysis on a non-empty result carries
\* one remark, chosen by the total T of its signatures: "highly successful"
\* for T > 1,000,000, "notable public interest" for 100,000 < T <= 1,000,000,
\* "niche or specialized" for T <= 100,000.
C14_Remark ==
  /\ (FallbackRan /\ query_results.bundle.filtered_data # <<>>) =>
        query_results.bundle.analysis.kind = "Analysis Results"
  /\ (query_results.present /\ query_results.bundle.analysis.kind = "Analysis Results") =>
       LET T == sum_signatures(query_results.bundle.filtered_data)
       IN /\ query_results.bundle.analysis.total = T
          /\ query_results.bundle.analysis.remark =
               IF T > 1000000 THEN "highly successful"
               ELSE IF T > 100000 THEN "notable public interest"
               ELSE "niche or specialized"

\* C14 witness: a single row with 1,500,000 signatures gets the "highly
\* successful" remark.
C14_Witness ==
  /\ query_results.present
  /\ query_results.bundle.filtered_data = <<R_health>>
  /\ query_results.bundle.analysis.kind = "Analysis Results"
  /\ query_results.bundle.analysis.remark = "highly successful"

\* C15: the session's dataset is never mutated by a query: every run of
\* process_natural_language_query, on the primary path or the fallback path,
\* leaves it with the same records in the same order; it changes only by a
\* successful refresh, which stores a non-empty dataset, and a refresh that
\* fails or fetches an empty dataset leaves it unchanged.
C15_DatasetOnlyReplaced ==
  [][ /\ (calls' # <<>> /\ calls'[1] = "create") => petition_data' = petition_data
      /\ (calls' = <<"fetch_petition_data", "st.error">>) =>
            petition_data' = petition_data
      /\ (calls' = <<"fetch_petition_data", "st.success">>) =>
            /\ petition_data'.loaded
            /\ petition_data'.df # <<>>
            /\ Ok(petition_data'.df) \in Fetched
      /\ (petition_data' # petition_data) =>
            calls' = <<"fetch_petition_data", "st.success">> ]_vars

\* C15 witness: a query fell back and returned fewer rows than the two-row
\* dataset the session still holds.
C15_Witness ==
  /\ QueryRan
  /\ FallbackRan
  /\ query_results.present
  /\ Len(petition_data.df) = 2
  /\ Len(query_results.bundle.filtered_data) < 2

\* the trigger phrases that carry a number, in table order, with their numbers
numeric_phrases ==
  <<[phrase |-> high, n |-> 100000], [phrase |-> popular, n |-> 50000],
    [phrase |-> over_100k, n |-> 100000], [phrase |-> above_50k, n |-> 50000]>>
\* the positions of the numeric phrases found in the query
numeric_found(query) ==
  {i \in 1..Len(numeric_phrases) : literal_in(numeric_phrases[i].phrase, query)}
\* the number of the first numeric phrase found in the query, 0 if none is
first_numeric(query) ==
  IF numeric_found(query) = {} THEN 0
  ELSE numeric_phrases[CHOOSE i \in numeric_found(query) :
                         \A j \in numeric_found(query) : i <= j].n

\* C16: the fallback applies at most one signature filter per query; it is
\* signatures >= the number of the first phrase, in table order, that carries
\* a number (high, popular, over 100k, above 50k); most, top and more than
\* neither filter nor stop the scan; a query with no such phrase gets no
\* signature filter: the rows returned are those that pass that one filter
\* and the state and topic filters (the first 20 of them for a top query).
C16_FirstThreshold ==
  (FallbackRan /\ query_results.present) =>
     LET out == query_results.bundle.filtered_data
         notes == query_results.bundle.interpretation.notes
         sig_notes == {i \in 1..Len(notes) : notes[i].note = "filtered for signatures >="}
         n == first_numeric(query_input)
         plan == fallback_plans[query_input]
         pass == {r \in Rows(petition_data.df) :
                    /\ r.Signatures_Count >= n
                    /\ plan.state # <<>> => str_lower(r.State) = plan.state
                    /\ plan.topic # <<>> => literal_in(plan.topic, r.Petition)}
     IN /\ Cardinality(sig_notes) <= 1
        /\ (n = 0) <=> (sig_notes = {})
        /\ \A i \in sig_notes : notes[i].n = n
        /\ Rows(out) \subseteq pass
        /\ IF asks_top(query_input)
             THEN Len(out) = IF Cardinality(pass) < 20 THEN Cardinality(pass) ELSE 20
             ELSE Rows(out) = pass

\* C16 witness: "popular over 100k" matches popular (50,000) before over 100k
\* (100,000): a petition with 50,000 signatures is returned.
C16_Witness ==
  /\ FallbackRan
  /\ query_results.present
  /\ query_input = Q_popular_over
  /\ \E i \in 1..Len(query_results.bundle.interpretation.notes) :
        /\ query_results.bundle.interpretation.notes[i].note = "filtered for signatures >="
        /\ query_results.bundle.interpretation.notes[i].n = 50000
  /\ R_tax \in Rows(query_results.bundle.filtered_data)

====
